---- MODULE Spec2Model ----
(***************************************************************************)
(* Model of ros2_berrygps/gps_node.py: the serial read loop of             *)
(* GPSNode.connect_serial and the sentence handling of                     *)
(* GPSNode.add_sentence / GPSNode.parse_nmea_sentence.                     *)
(*                                                                         *)
(* Numbers.  A Python float is a record [nan, v]: nan says the value is    *)
(* NaN, v is the value otherwise.  Error estimates (the epe defaults and   *)
(* the three std-devs) are counted in hundredths, so that the defaults     *)
(* 0.02, 0.1, 3.0, 4.0 and 1000000 are the integers 2, 10, 300, 400 and    *)
(* 100000000.  A covariance entry (x ** 2) is kept as [nan, root]: root    *)
(* is |x|, since the square itself does not fit TLC's integers.  Courses   *)
(* are counted in quarter turns and headings in degrees.                   *)
(*                                                                         *)
(* ros2_berrygps.gps_utils (check_nmea_checksum, parse_maps, euler2quat)   *)
(* is not among the sources; those three are modelled from the             *)
(* specification's description of them.                                    *)
(***************************************************************************)
EXTENDS Integers, Sequences, FiniteSets, TLC

VARIABLES
    pc,                  \* where connect_serial is: "open", "reading", "failed", "stopped", "exited"
    port,                \* self.GPS: "none", "open", "closed"
    use_RMC,             \* self.use_RMC (a parameter, fixed at construction)
    valid_fix,           \* self.valid_fix
    using_receiver_epe,  \* self.using_receiver_epe
    lon_std_dev,         \* self.lon_std_dev
    lat_std_dev,         \* self.lat_std_dev
    alt_std_dev,         \* self.alt_std_dev
    out,                 \* what the last step of the loop did (observation)
    lastGGA,             \* history: <<fix_type>> of the last GGA sentence parsed, or << >>
    lastGST              \* history: <<lon, lat, alt>> std-devs of the last GST sentence parsed, or << >>

vars == <<pc, port, use_RMC, valid_fix, using_receiver_epe,
          lon_std_dev, lat_std_dev, alt_std_dev, out, lastGGA, lastGST>>

----------------------------------------------------------------------------
(* Python floats *)

NaN == [nan |-> TRUE, v |-> 0]

F(x) == [nan |-> FALSE, v |-> x]

isnan(x) == x.nan

FNeg(x) == IF x.nan THEN NaN ELSE F(0 - x.v)

FAdd(x, y) == IF x.nan \/ y.nan THEN NaN ELSE F(x.v + y.v)

FMul(x, y) == IF x.nan \/ y.nan THEN NaN ELSE F(x.v * y.v)

Abs(n) == IF n < 0 THEN 0 - n ELSE n

FSquare(x) == IF x.nan THEN [nan |-> TRUE, root |-> 0]
              ELSE [nan |-> FALSE, root |-> Abs(x.v)]

----------------------------------------------------------------------------
(* sensor_msgs constants used by the node *)

STATUS_NO_FIX == -1

STATUS_FIX == 0

STATUS_SBAS_FIX == 1

STATUS_GBAS_FIX == 2

COVARIANCE_TYPE_UNKNOWN == 0

COVARIANCE_TYPE_APPROXIMATED == 1

(* the declared defaults of the epe_quality parameters, in hundredths *)

default_epe_quality0 == 100000000

default_epe_quality1 == 400

default_epe_quality2 == 10

default_epe_quality4 == 2

default_epe_quality5 == 400

default_epe_quality9 == 300

QualityKeys == {-1, 0, 1, 2, 4, 5, 9}

gps_qualities(k) ==
    CASE k = -1 -> <<F(default_epe_quality0), STATUS_NO_FIX, COVARIANCE_TYPE_UNKNOWN>>
      [] k = 0  -> <<F(default_epe_quality0), STATUS_NO_FIX, COVARIANCE_TYPE_UNKNOWN>>
      [] k = 1  -> <<F(default_epe_quality1), STATUS_FIX, COVARIANCE_TYPE_APPROXIMATED>>
      [] k = 2  -> <<F(default_epe_quality2), STATUS_SBAS_FIX, COVARIANCE_TYPE_APPROXIMATED>>
      [] k = 4  -> <<F(default_epe_quality4), STATUS_GBAS_FIX, COVARIANCE_TYPE_APPROXIMATED>>
      [] k = 5  -> <<F(default_epe_quality5), STATUS_GBAS_FIX, COVARIANCE_TYPE_APPROXIMATED>>
      [] k = 9  -> <<F(default_epe_quality9), STATUS_GBAS_FIX, COVARIANCE_TYPE_APPROXIMATED>>

----------------------------------------------------------------------------
(* A line read from the receiver.                                          *)
(*   utf8     the bytes decode as UTF-8                                     *)
(*   star     the line ends in *hh (a two hex digit checksum suffix)        *)
(*   sum, xor the transmitted checksum and the XOR of the payload bytes     *)
(*   talker   the two letters after $                                       *)
(*   type     the rest of the first field (fields[0][3:])                   *)
(*   nfields  len(nmea_sentence.split(','))                                 *)
(*   bad      index of a field whose text its decoder cannot decode, or 0   *)
(*   data     what the decoders return for the fields                       *)

Talkers == {"GP", "GN", "GL", "IN"}

check_nmea_checksum(line) == line.star /\ line.sum = line.xor

(* parse_maps: for each sentence type, the field indexes its entries read, *)
(* in order (the NMEA 0183 positions of the fields add_sentence reads).    *)
parse_maps ==
    [GGA |-> <<6, 2, 3, 4, 5, 9, 11, 8, 1>>,
     RMC |-> <<1, 2, 3, 4, 5, 6, 7, 8>>,
     GST |-> <<6, 7, 8>>,
     HDT |-> <<1>>,
     VTG |-> <<1, 5>>]

\* the for loop at gps_node.py:151-152, from entry i on
RECURSIVE DecodeFields(_, _, _)
DecodeFields(entries, i, line) ==
    IF i > Len(entries) THEN "parsed"
    ELSE IF entries[i] >= line.nfields THEN "IndexError"
    ELSE IF entries[i] = line.bad THEN "ValueError"
    ELSE DecodeFields(entries, i + 1, line)

RegexMatches(line) == line.talker \in Talkers /\ line.star

parse_nmea_sentence(line) ==
    IF ~RegexMatches(line) THEN "False"
    ELSE IF line.type \notin DOMAIN parse_maps THEN "False"
    ELSE DecodeFields(parse_maps[line.type], 1, line)

----------------------------------------------------------------------------
(* add_sentence.  rs is the receiver state the call starts from:           *)
(* [valid_fix, using_receiver_epe, lon_std_dev, lat_std_dev, alt_std_dev]. *)
(* Every handler returns [rs, events]: the state it leaves and the         *)
(* messages it publishes, in order.  Header stamps and frame ids are left  *)
(* out of the messages.                                                    *)

Zero2 == [nan |-> FALSE, root |-> 0]

\* NavSatFix(): the fields of a new message
NavSatFix ==
    [kind |-> "fix", status |-> STATUS_FIX, latitude |-> F(0), longitude |-> F(0),
     altitude |-> F(0), position_covariance_type |-> COVARIANCE_TYPE_UNKNOWN,
     position_covariance |-> <<Zero2, Zero2, Zero2, Zero2, Zero2, Zero2, Zero2, Zero2, Zero2>>]

TimeReference(utc) == [kind |-> "time_ref", time_ref |-> utc]

\* course is counted in quarter turns
Sin(course) == <<0, 1, 0, -1>>[(course % 4) + 1]

Cos(course) == <<1, 0, -1, 0>>[(course % 4) + 1]

TwistStamped(data) ==
    [kind |-> "vel",
     x |-> FMul(data.speed, F(Sin(data.true_course))),
     y |-> FMul(data.speed, F(Cos(data.true_course)))]

\* euler2quat(0, 0, radians(heading)) as <<x, y, z, w>>, for a heading that is a
\* multiple of 180 degrees: the yaw-only unit quaternion (0, 0, sin(yaw/2), cos(yaw/2))
euler2quat(heading) == <<0, 0, Sin(heading \div 180), Cos(heading \div 180)>>

QuaternionStamped(heading) ==
    LET q == euler2quat(heading)
    IN  [kind |-> "heading", x |-> q[1], y |-> q[2], z |-> q[3], w |-> q[4]]

\* Python truth of a number: `if data['heading']:`
Truthy(n) == n # 0

\* faulty variant: either of S and W negates either coordinate
Signed_either_letter(value, direction, negative) ==
    IF direction \in {"S", "W"} THEN FNeg(value) ELSE value

Signed(value, direction, negative) ==
    IF direction = negative THEN FNeg(value) ELSE value

\* faulty variant: an unknown code falls back to the entry of code 1
FixType_falls_to_1(fix_type) == IF fix_type \notin QualityKeys THEN 1 ELSE fix_type

FixType(fix_type) == IF fix_type \notin QualityKeys THEN -1 ELSE fix_type

ValidFix(status) == status > 0

\* faulty variant: the default always replaces the std-devs
ResolveEpe_always_default(rs, default_epe) ==
    [rs EXCEPT !.lon_std_dev = default_epe, !.lat_std_dev = default_epe,
               !.alt_std_dev = FMul(default_epe, F(2))]

\* faulty variant: replacing a NaN by the default also clears the flag
ResolveEpe_clears_flag(rs, default_epe) ==
    LET lon == IF ~rs.using_receiver_epe \/ isnan(rs.lon_std_dev)
               THEN default_epe ELSE rs.lon_std_dev
        lat == IF ~rs.using_receiver_epe \/ isnan(rs.lat_std_dev)
               THEN default_epe ELSE rs.lat_std_dev
        alt == IF ~rs.using_receiver_epe \/ isnan(rs.alt_std_dev)
               THEN FMul(default_epe, F(2)) ELSE rs.alt_std_dev
    IN  [rs EXCEPT !.lon_std_dev = lon, !.lat_std_dev = lat, !.alt_std_dev = alt,
                   !.using_receiver_epe = rs.using_receiver_epe /\ ~isnan(rs.lon_std_dev)]

ResolveEpe(rs, default_epe) ==
    LET lon == IF ~rs.using_receiver_epe \/ isnan(rs.lon_std_dev)
               THEN default_epe ELSE rs.lon_std_dev
        lat == IF ~rs.using_receiver_epe \/ isnan(rs.lat_std_dev)
               THEN default_epe ELSE rs.lat_std_dev
        alt == IF ~rs.using_receiver_epe \/ isnan(rs.alt_std_dev)
               THEN FMul(default_epe, F(2)) ELSE rs.alt_std_dev
    IN  [rs EXCEPT !.lon_std_dev = lon, !.lat_std_dev = lat, !.alt_std_dev = alt]

\* faulty variant: the time reference is published whatever the time is
TimeRefEvents_always(data) == <<TimeReference(data.utc_time)>>

TimeRefEvents(data) ==
    IF ~isnan(data.utc_time) THEN <<TimeReference(data.utc_time)>> ELSE << >>

\* faulty variant: the altitude term has no factor 2
Covariance_altitude_unscaled(hdop, rs) ==
    [NavSatFix.position_covariance EXCEPT
       ![1] = FSquare(FMul(hdop, rs.lon_std_dev)),
       ![5] = FSquare(FMul(hdop, rs.lat_std_dev)),
       ![9] = FSquare(FMul(hdop, rs.alt_std_dev))]

\* position_covariance[0], [4] and [8] of the GGA fix; the other entries stay 0.0
Covariance(hdop, rs) ==
    [NavSatFix.position_covariance EXCEPT
       ![1] = FSquare(FMul(hdop, rs.lon_std_dev)),
       ![5] = FSquare(FMul(hdop, rs.lat_std_dev)),
       ![9] = FSquare(FMul(FMul(F(2), hdop), rs.alt_std_dev))]

HandleGGA(rs, data) ==
    LET gps_qual == gps_qualities(FixType(data.fix_type))
        rs1 == [rs EXCEPT !.valid_fix = ValidFix(gps_qual[2])]
        rs2 == ResolveEpe(rs1, gps_qual[1])
        current_fix ==
            [NavSatFix EXCEPT
               !.status = gps_qual[2],
               !.position_covariance_type = gps_qual[3],
               !.latitude = Signed(data.latitude, data.latitude_direction, "S"),
               !.longitude = Signed(data.longitude, data.longitude_direction, "W"),
               !.altitude = FAdd(data.altitude, data.mean_sea_level),
               !.position_covariance = Covariance(data.hdop, rs2)]
    IN  [rs |-> rs2, events |-> <<current_fix>> \o TimeRefEvents(data)]

\* faulty variant: the velocity is published whatever valid_fix is
HandleVTG_ungated(rs, data) == [rs |-> rs, events |-> <<TwistStamped(data)>>]

HandleVTG(rs, data) ==
    [rs |-> rs,
     events |-> IF rs.valid_fix THEN <<TwistStamped(data)>> ELSE << >>]

\* faulty variant: the altitude of the new message is left as it is
RMCFix_altitude_left(data) ==
    [NavSatFix EXCEPT
       !.status = IF data.fix_valid THEN STATUS_FIX ELSE STATUS_NO_FIX,
       !.latitude = Signed(data.latitude, data.latitude_direction, "S"),
       !.longitude = Signed(data.longitude, data.longitude_direction, "W"),
       !.position_covariance_type = COVARIANCE_TYPE_UNKNOWN]

RMCFix(data) ==
    [NavSatFix EXCEPT
       !.status = IF data.fix_valid THEN STATUS_FIX ELSE STATUS_NO_FIX,
       !.latitude = Signed(data.latitude, data.latitude_direction, "S"),
       !.longitude = Signed(data.longitude, data.longitude_direction, "W"),
       !.altitude = NaN,
       !.position_covariance_type = COVARIANCE_TYPE_UNKNOWN]

\* faulty variant: the velocity is published only when RMC is the fix source
RMCVelocity_gated(rmc, data) ==
    IF rmc /\ data.fix_valid THEN <<TwistStamped(data)>> ELSE << >>

RMCVelocity(rmc, data) ==
    IF data.fix_valid THEN <<TwistStamped(data)>> ELSE << >>

\* faulty variant: the velocity is published inside the use_RMC block as well
HandleRMC_velocity_twice(rs, rmc, data) ==
    [rs |-> rs,
     events |-> (IF rmc THEN <<RMCFix(data)>> \o TimeRefEvents(data) \o RMCVelocity(rmc, data)
                 ELSE << >>)
                \o RMCVelocity(rmc, data)]

\* faulty variant: the RMC validity flag is stored in valid_fix
HandleRMC_sets_valid_fix(rs, rmc, data) ==
    [rs |-> [rs EXCEPT !.valid_fix = data.fix_valid],
     events |-> (IF rmc THEN <<RMCFix(data)>> \o TimeRefEvents(data) ELSE << >>)
                \o RMCVelocity(rmc, data)]

HandleRMC(rs, rmc, data) ==
    [rs |-> rs,
     events |-> (IF rmc THEN <<RMCFix(data)>> \o TimeRefEvents(data) ELSE << >>)
                \o RMCVelocity(rmc, data)]

\* faulty variant: the std-devs are stored but the flag is not set
HandleGST_flag_unset(rs, data) ==
    [rs |-> [rs EXCEPT !.lon_std_dev = data.lon_std_dev,
                       !.lat_std_dev = data.lat_std_dev,
                       !.alt_std_dev = data.alt_std_dev],
     events |-> << >>]

HandleGST(rs, data) ==
    [rs |-> [rs EXCEPT !.using_receiver_epe = TRUE,
                       !.lon_std_dev = data.lon_std_dev,
                       !.lat_std_dev = data.lat_std_dev,
                       !.alt_std_dev = data.alt_std_dev],
     events |-> << >>]

HandleHDT(rs, data) ==
    [rs |-> rs,
     events |-> IF Truthy(data.heading) THEN <<QuaternionStamped(data.heading)>> ELSE << >>]

\* faulty variant: the GGA branch does not look at use_RMC
Branch_GGA_always(rmc, type) ==
    IF type = "GGA" THEN "GGA"
    ELSE IF ~rmc /\ type = "VTG" THEN "VTG"
    ELSE IF type = "RMC" THEN "RMC"
    ELSE IF type = "GST" THEN "GST"
    ELSE IF type = "HDT" THEN "HDT"
    ELSE "else"

\* the if / elif chain at gps_node.py:186-310: which branch a parsed sentence takes
Branch(rmc, type) ==
    IF ~rmc /\ type = "GGA" THEN "GGA"
    ELSE IF ~rmc /\ type = "VTG" THEN "VTG"
    ELSE IF type = "RMC" THEN "RMC"
    ELSE IF type = "GST" THEN "GST"
    ELSE IF type = "HDT" THEN "HDT"
    ELSE "else"

\* what add_sentence returns or raises, with what it published and the state it left;
\* parsed says whether parse_nmea_sentence was called
Outcome(ret, parsed, h) == [ret |-> ret, parsed |-> parsed, rs |-> h.rs, events |-> h.events]

Dispatch(rs, rmc, line) ==
    LET b == Branch(rmc, line.type) IN
    CASE b = "GGA" -> Outcome("None", TRUE, HandleGGA(rs, line.data))
      [] b = "VTG" -> Outcome("None", TRUE, HandleVTG(rs, line.data))
      [] b = "RMC" -> Outcome("None", TRUE, HandleRMC(rs, rmc, line.data))
      [] b = "GST" -> Outcome("None", TRUE, HandleGST(rs, line.data))
      [] b = "HDT" -> Outcome("None", TRUE, HandleHDT(rs, line.data))
      [] OTHER     -> Outcome("False", TRUE, [rs |-> rs, events |-> << >>])

ParseAndDispatch(rs, rmc, line) ==
    LET parsed_sentence == parse_nmea_sentence(line) IN
    IF parsed_sentence = "parsed" THEN Dispatch(rs, rmc, line)
    ELSE Outcome(parsed_sentence, TRUE, [rs |-> rs, events |-> << >>])

\* faulty variant: the checksum is not looked at
add_sentence_unchecked(rs, rmc, line) == ParseAndDispatch(rs, rmc, line)

add_sentence(rs, rmc, line) ==
    IF ~check_nmea_checksum(line)
    THEN Outcome("False", FALSE, [rs |-> rs, events |-> << >>])
    ELSE ParseAndDispatch(rs, rmc, line)

----------------------------------------------------------------------------
(* The lines the receiver may send *)

MaxHdop == 2

MaxCourse == 1

FixTypes == QualityKeys \cup {3}

Directions == {<<"N", "E">>, <<"S", "W">>}

\* mixed hemispheres, an empty direction field, and the letters of the other axis
OtherDirections == {<<"N", "W">>, <<"S", "E">>, <<"", "">>, <<"W", "S">>}

UtcTimes == {NaN, F(45319)}

StdDevs == {<<F(7), F(8), F(9)>>, <<NaN, NaN, NaN>>, <<NaN, F(8), F(9)>>}

Headings == {0, 180, 360}

Sentence(type, nfields, data) ==
    [utf8 |-> TRUE, star |-> TRUE, sum |-> 1, xor |-> 1, talker |-> "GP",
     type |-> type, nfields |-> nfields, bad |-> 0, data |-> data]

GGA(q, h, d, t) ==
    Sentence("GGA", 15,
        [fix_type |-> q, latitude |-> F(48), latitude_direction |-> d[1],
         longitude |-> F(11), longitude_direction |-> d[2],
         altitude |-> F(545), mean_sea_level |-> F(47), hdop |-> F(h), utc_time |-> t])

GGALines ==
    {GGA(q, h, d, t) : q \in FixTypes, h \in 1..MaxHdop, d \in Directions, t \in UtcTimes}
    \cup {GGA(1, 1, d, F(45319)) : d \in OtherDirections}

VTGLines ==
    {Sentence("VTG", 10, [true_course |-> c, speed |-> F(3)]) : c \in 0..MaxCourse}

RMC(a, d, t) ==
    Sentence("RMC", 13,
        [fix_valid |-> a, latitude |-> F(48), latitude_direction |-> d[1],
         longitude |-> F(11), longitude_direction |-> d[2],
         speed |-> F(3), true_course |-> 1, utc_time |-> t])

RMCLines ==
    {RMC(a, d, t) : a \in BOOLEAN, d \in Directions, t \in UtcTimes}
    \cup {RMC(TRUE, d, F(45319)) : d \in OtherDirections}

GSTLines ==
    {Sentence("GST", 9, [lon_std_dev |-> e[1], lat_std_dev |-> e[2], alt_std_dev |-> e[3]]) :
        e \in StdDevs}

HDTLines == {Sentence("HDT", 3, [heading |-> h]) : h \in Headings}

\* one good line of each type, to be damaged
Intact ==
    {CHOOSE l \in GGALines : l.data.fix_type = 2 /\ l.data.hdop = F(1)
                             /\ l.data.latitude_direction = "N" /\ ~isnan(l.data.utc_time),
     CHOOSE l \in VTGLines : l.data.true_course = 0,
     CHOOSE l \in RMCLines : l.data.fix_valid /\ l.data.latitude_direction = "N"
                             /\ ~isnan(l.data.utc_time),
     CHOOSE l \in GSTLines : ~isnan(l.data.lon_std_dev),
     CHOOSE l \in HDTLines : l.data.heading = 180}

Damaged ==
    UNION {{[l EXCEPT !.utf8 = FALSE],        \* bytes that are not UTF-8
            [l EXCEPT !.sum = 0],             \* wrong checksum
            [l EXCEPT !.star = FALSE],        \* no *hh suffix
            [l EXCEPT !.talker = "XX"],       \* unknown talker
            [l EXCEPT !.type = "ZDA"],        \* a type the grammar does not have
            [l EXCEPT !.bad = parse_maps[l.type][1]]} : l \in Intact}

\* a GGA line cut after its altitude unit (fields 0 to 10) and a VTG line cut after
\* field 4: the last field left is one the grammar does not read, and the grammar
\* reads a field past it
CutShort ==
    {[l EXCEPT !.nfields = IF l.type = "GGA" THEN 11 ELSE 5] :
        l \in {x \in Intact : x.type \in {"GGA", "VTG"}}}

Lines == GGALines \cup VTGLines \cup RMCLines \cup GSTLines \cup HDTLines \cup Damaged \cup CutShort

NoLine == Sentence("", 0, [heading |-> 0])

----------------------------------------------------------------------------
(* connect_serial *)

ReceiverState ==
    [valid_fix |-> valid_fix, using_receiver_epe |-> using_receiver_epe,
     lon_std_dev |-> lon_std_dev, lat_std_dev |-> lat_std_dev, alt_std_dev |-> alt_std_dev]

Observed(op, line, called, o, pre) ==
    [op |-> op, line |-> line, called |-> called, parsed |-> o.parsed, ret |-> o.ret,
     events |-> o.events, pre |-> pre]

Nothing == [parsed |-> FALSE, ret |-> "", events |-> << >>]

Init ==
    /\ pc = "open"
    /\ port = "none"
    /\ use_RMC \in BOOLEAN
    /\ valid_fix = FALSE
    /\ using_receiver_epe = FALSE
    /\ lon_std_dev = NaN
    /\ lat_std_dev = NaN
    /\ alt_std_dev = NaN
    /\ out = Observed("init", NoLine, FALSE, Nothing, ReceiverState)
    /\ lastGGA = << >>
    /\ lastGST = << >>

\* serial.Serial(...) succeeds
OpenSerial ==
    /\ pc = "open"
    /\ pc' = "reading"
    /\ port' = "open"
    /\ out' = Observed("open", NoLine, FALSE, Nothing, ReceiverState)
    /\ UNCHANGED <<use_RMC, valid_fix, using_receiver_epe, lon_std_dev, lat_std_dev,
                   alt_std_dev, lastGGA, lastGST>>

\* serial.Serial(...) raises SerialException
OpenFails ==
    /\ pc = "open"
    /\ pc' = "failed"
    /\ out' = Observed("open_error", NoLine, FALSE, Nothing, ReceiverState)
    /\ UNCHANGED <<port, use_RMC, valid_fix, using_receiver_epe, lon_std_dev, lat_std_dev,
                   alt_std_dev, lastGGA, lastGST>>

\* the line reaches the if / elif chain of add_sentence
Parses(line) ==
    line.utf8 /\ check_nmea_checksum(line) /\ parse_nmea_sentence(line) = "parsed"

\* the loop body up to the end of the inner try: what add_sentence did, or the
\* UnicodeDecodeError of data.decode("utf-8"), which is a ValueError
Body(pre, rmc, line) ==
    IF line.utf8 THEN add_sentence(pre, rmc, line)
    ELSE [ret |-> "UnicodeDecodeError", parsed |-> FALSE, rs |-> pre, events |-> << >>]

\* faulty variant: the decode error of the bytes is not among the caught ones
Caught_not_decode_error(ret) == ret \in {"False", "None", "ValueError"}

\* whether `except ValueError` catches what the body raised, if it raised
Caught(ret) == ret \in {"False", "None", "ValueError", "UnicodeDecodeError"}

\* one turn of the while loop: readline() returns line
ReadLine(line) ==
    /\ pc = "reading"
    /\ \E o \in {Body(ReceiverState, use_RMC, line)} :
           /\ valid_fix' = o.rs.valid_fix
           /\ using_receiver_epe' = o.rs.using_receiver_epe
           /\ lon_std_dev' = o.rs.lon_std_dev
           /\ lat_std_dev' = o.rs.lat_std_dev
           /\ alt_std_dev' = o.rs.alt_std_dev
           /\ out' = Observed("read", line, line.utf8, o, ReceiverState)
           /\ pc' = IF Caught(o.ret) THEN "reading" ELSE "stopped"
           /\ port' = IF Caught(o.ret) THEN port ELSE "closed"
           /\ lastGGA' = IF Parses(line) /\ line.type = "GGA"
                         THEN <<line.data.fix_type>> ELSE lastGGA
           /\ lastGST' = IF Parses(line) /\ line.type = "GST"
                         THEN <<line.data.lon_std_dev, line.data.lat_std_dev,
                                line.data.alt_std_dev>>
                         ELSE lastGST
    /\ UNCHANGED use_RMC

\* faulty variant: the loop goes on after readline() raised
ReadFails_keeps_reading ==
    /\ pc = "reading"
    /\ pc' = "reading"
    /\ port' = port
    /\ out' = Observed("transport_error", NoLine, FALSE, Nothing, ReceiverState)
    /\ UNCHANGED <<use_RMC, valid_fix, using_receiver_epe, lon_std_dev, lat_std_dev,
                   alt_std_dev, lastGGA, lastGST>>

\* readline() raises (the device went away)
ReadFails ==
    /\ pc = "reading"
    /\ pc' = "stopped"
    /\ port' = "closed"
    /\ out' = Observed("transport_error", NoLine, FALSE, Nothing, ReceiverState)
    /\ UNCHANGED <<use_RMC, valid_fix, using_receiver_epe, lon_std_dev, lat_std_dev,
                   alt_std_dev, lastGGA, lastGST>>

\* rclpy.ok() is false at the top of the loop
Shutdown ==
    /\ pc = "reading"
    /\ pc' = "exited"
    /\ out' = Observed("shutdown", NoLine, FALSE, Nothing, ReceiverState)
    /\ UNCHANGED <<port, use_RMC, valid_fix, using_receiver_epe, lon_std_dev, lat_std_dev,
                   alt_std_dev, lastGGA, lastGST>>

Next ==
    \/ OpenSerial
    \/ OpenFails
    \/ \E line \in Lines : ReadLine(line)
    \/ ReadFails
    \/ Shutdown

Spec == Init /\ [][Next]_vars

----------------------------------------------------------------------------
(* Vocabulary of the properties *)

Read == out.op = "read"

\* the last line read reached the branch of its type in add_sentence
Handled(type) ==
    /\ Read
    /\ Parses(out.line)
    /\ out.line.type = type
    /\ Branch(use_RMC, type) = type

Count(events, kind) == Cardinality({i \in DOMAIN events : events[i].kind = kind})

FixStateCodes == {1, 2, 4, 5, 9}

SupportedTypes == {"GGA", "VTG", "RMC", "GST", "HDT"}

ChecksumFails(l) == ~l.star \/ l.sum # l.xor

Malformed(l) == ~l.star \/ l.talker \notin Talkers

Unsupported(l) == l.type \notin SupportedTypes

\* a field its decoder cannot decode, or fewer fields than the grammar indexes
Undecodable(l) ==
    /\ l.type \in SupportedTypes
    /\ \E i \in DOMAIN parse_maps[l.type] :
          parse_maps[l.type][i] = l.bad \/ parse_maps[l.type][i] >= l.nfields

Rejected(l) == ~l.utf8 \/ ChecksumFails(l) \/ Malformed(l) \/ Unsupported(l) \/ Undecodable(l)

EventKinds == {"fix", "time_ref", "vel", "heading"}

\* the kinds of message that belong to a sentence type
KindsOf(type) ==
    CASE type = "GGA" -> {"fix", "time_ref"}
      [] type = "VTG" -> {"vel"}
      [] type = "RMC" -> {"fix", "time_ref", "vel"}
      [] type = "HDT" -> {"heading"}
      [] OTHER        -> {}

Finite3(t) == ~isnan(t[1]) /\ ~isnan(t[2]) /\ ~isnan(t[3])

----------------------------------------------------------------------------
\* C1: after a GGA sentence is processed with use_RMC false, valid_fix is true
\* exactly when the sentence's quality code is 1, 2, 4, 5 or 9.
C1_ValidFixIffFixState ==
    (Handled("GGA") /\ ~use_RMC)
        => (valid_fix <=> out.line.data.fix_type \in FixStateCodes)

\* C2: a line that fails validation or parsing never ends the read loop: after it
\* the loop is still reading.
C2_RejectedLineKeepsLoop ==
    (Read /\ Rejected(out.line)) => (pc = "reading" /\ port = "open")

\* C3: a line that add_sentence drops publishes nothing and leaves the receiver
\* state as it was, and a line whose checksum fails is never given to
\* parse_nmea_sentence.
C3_DroppedLineNoEffect ==
    (Read /\ out.called /\ Rejected(out.line))
        => /\ out.events = << >>
           /\ ReceiverState = out.pre
           /\ (ChecksumFails(out.line) => ~out.parsed)

C3_Witness ==
    /\ Read /\ out.called /\ ~use_RMC
    /\ ChecksumFails(out.line) /\ out.line.star /\ out.line.type = "GGA"
    /\ using_receiver_epe /\ ~valid_fix

\* C4: with use_RMC false a VTG sentence publishes one velocity exactly when
\* valid_fix was true when it was processed, and none otherwise; a velocity from
\* VTG is only ever published when the last GGA before it had a fix-state quality
\* code (so none before the first GGA, and none after a GGA of quality 0 until a
\* later GGA with a fix-state code).
C4_VTGVelocityIffValidFix ==
    (Handled("VTG") /\ ~use_RMC)
        => /\ out.events = (IF out.pre.valid_fix THEN <<TwistStamped(out.line.data)>> ELSE << >>)
           /\ (out.events # << >>
                  => lastGGA # << >> /\ lastGGA[1] \in FixStateCodes)

C4_Witness ==
    /\ Handled("VTG") /\ ~use_RMC
    /\ Count(out.events, "vel") = 1

\* C5: an HDT sentence that carries a heading publishes exactly one heading
\* message, the yaw-only quaternion of that heading (0.0 degrees included).
C5_HeadingPublishedWhenPresent ==
    Handled("HDT") => out.events = <<QuaternionStamped(out.line.data.heading)>>

\* C6: when add_sentence returns, it returns True if the sentence reached the
\* branch that handles it, and False otherwise.
C6_ReturnsTrueWhenHandled ==
    (Read /\ out.called /\ out.ret \notin {"ValueError", "IndexError"})
        => (out.ret = (IF \E t \in SupportedTypes : Handled(t) THEN "True" ELSE "False"))

\* C7: an RMC sentence publishes exactly one velocity when its validity flag is
\* true and none when it is false, whatever use_RMC and valid_fix are.
C7_RMCVelocityUnconditional ==
    Handled("RMC")
        => Count(out.events, "vel") = (IF out.line.data.fix_valid THEN 1 ELSE 0)

C7_Witness ==
    /\ Handled("RMC") /\ ~use_RMC /\ out.line.data.fix_valid
    /\ ~out.pre.valid_fix
    /\ out.events = <<TwistStamped(out.line.data)>>

\* C8: the two fix sources exclude each other.  With use_RMC true a GGA or VTG
\* sentence publishes nothing and leaves the receiver state alone, valid_fix is
\* never true, and fixes and time references come only from RMC; with use_RMC
\* false an RMC sentence publishes no fix and no time reference, and fixes come
\* only from GGA.
C8_FixSourcesExclusive ==
    /\ use_RMC => ~valid_fix
    /\ (Read /\ use_RMC /\ out.line.type \in {"GGA", "VTG"})
          => (out.events = << >> /\ ReceiverState = out.pre)
    /\ (Read /\ Count(out.events, "fix") + Count(out.events, "time_ref") > 0)
          => out.line.type = (IF use_RMC THEN "RMC" ELSE "GGA")

C8_Witness ==
    /\ Read /\ use_RMC /\ Parses(out.line) /\ out.line.type = "GGA"
    /\ out.line.data.fix_type = 2
    /\ using_receiver_epe /\ isnan(lon_std_dev)

\* C9: once a GST sentence has given finite std-devs, a GGA sentence processed
\* (use_RMC false) before any other GST computes its covariance from exactly
\* those std-devs and leaves them in the receiver state.
C9_GGAUsesReceiverEpe ==
    (Handled("GGA") /\ ~use_RMC /\ lastGST # << >> /\ Finite3(lastGST))
        => /\ using_receiver_epe
           /\ <<lon_std_dev, lat_std_dev, alt_std_dev>> = lastGST
           /\ out.events[1].position_covariance[1]
                 = FSquare(FMul(out.line.data.hdop, lastGST[1]))
           /\ out.events[1].position_covariance[5]
                 = FSquare(FMul(out.line.data.hdop, lastGST[2]))
           /\ out.events[1].position_covariance[9]
                 = FSquare(FMul(FMul(F(2), out.line.data.hdop), lastGST[3]))

C9_Witness ==
    /\ Handled("GGA") /\ ~use_RMC /\ lastGST # << >> /\ Finite3(lastGST)
    /\ out.line.data.fix_type = 0 /\ out.line.data.hdop = F(2)
    /\ out.pre.lon_std_dev = lastGST[1]
    /\ out.events[1].position_covariance[1] = FSquare(F(14))

\* C10: with use_RMC true an RMC sentence publishes exactly one fix: its status is
\* FIX when the validity flag is true and NO_FIX when it is false, its altitude is
\* NaN and its covariance type UNKNOWN, whatever the receiver state is.
C10_RMCFixShape ==
    (Handled("RMC") /\ use_RMC)
        => /\ Count(out.events, "fix") = 1
           /\ out.events[1].kind = "fix"
           /\ out.events[1].status
                 = (IF out.line.data.fix_valid THEN STATUS_FIX ELSE STATUS_NO_FIX)
           /\ isnan(out.events[1].altitude)
           /\ out.events[1].position_covariance_type = COVARIANCE_TYPE_UNKNOWN

C10_Witness ==
    /\ Handled("RMC") /\ use_RMC /\ ~out.line.data.fix_valid
    /\ using_receiver_epe /\ ~isnan(lon_std_dev) /\ lastGGA # << >>
    /\ out.events[1].status = STATUS_NO_FIX

\* C11: a GST sentence, whatever use_RMC is, sets using_receiver_epe, stores the
\* sentence's three std-devs, publishes nothing and leaves valid_fix as it was.
C11_GSTStoresEpe ==
    Handled("GST")
        => /\ using_receiver_epe
           /\ lon_std_dev = out.line.data.lon_std_dev
           /\ lat_std_dev = out.line.data.lat_std_dev
           /\ alt_std_dev = out.line.data.alt_std_dev
           /\ out.events = << >>
           /\ valid_fix = out.pre.valid_fix

C11_Witness ==
    /\ Handled("GST") /\ valid_fix
    /\ ~out.pre.using_receiver_epe /\ using_receiver_epe
    /\ out.pre.lon_std_dev = F(default_epe_quality2) /\ lon_std_dev = F(7)

\* C12: only GGA and GST sentences change the receiver state: a VTG, RMC or HDT
\* sentence leaves its five fields as they were, whether or not it publishes.
C12_OnlyGGAandGSTChangeState ==
    /\ (Read /\ Parses(out.line) /\ out.line.type \in {"VTG", "RMC", "HDT"})
          => ReceiverState = out.pre
    /\ ReceiverState # out.pre => (Read /\ out.line.type \in {"GGA", "GST"})

C12_Witness ==
    /\ Handled("RMC") /\ ~out.line.data.fix_valid
    /\ valid_fix /\ using_receiver_epe /\ ~isnan(lon_std_dev)

\* C13: a GGA sentence whose quality code is not a key of the table is handled
\* with the entry of code -1: a fix is still published, with status NO_FIX and
\* covariance type UNKNOWN, and the default error estimate is that of quality 0.
C13_UnknownQualityFallsBack ==
    (Handled("GGA") /\ ~use_RMC /\ out.line.data.fix_type \notin {-1, 0, 1, 2, 4, 5, 9})
        => /\ out.ret = "None"
           /\ Count(out.events, "fix") = 1
           /\ out.events[1].kind = "fix"
           /\ out.events[1].status = STATUS_NO_FIX
           /\ out.events[1].position_covariance_type = COVARIANCE_TYPE_UNKNOWN
           /\ ~valid_fix
           /\ (~out.pre.using_receiver_epe
                 => /\ lon_std_dev = F(default_epe_quality0)
                    /\ lat_std_dev = F(default_epe_quality0)
                    /\ alt_std_dev = F(2 * default_epe_quality0))

C13_Witness ==
    /\ Handled("GGA") /\ ~use_RMC /\ out.line.data.fix_type = 3
    /\ out.pre.valid_fix /\ ~using_receiver_epe
    /\ out.pre.lon_std_dev = F(default_epe_quality4)
    /\ lon_std_dev = F(default_epe_quality0)

\* C14: when reading a line fails at the transport, the loop stops: the port is
\* closed, nothing is published, and no further step of the loop can happen.
C14_TransportFailureStopsLoop ==
    out.op = "transport_error"
        => /\ pc = "stopped"
           /\ port = "closed"
           /\ out.events = << >>
           /\ ReceiverState = out.pre
           /\ ~ENABLED Next

C14_Witness ==
    /\ out.op = "transport_error"
    /\ valid_fix /\ using_receiver_epe /\ lastGGA # << >>

\* C15: a line whose bytes are not valid UTF-8 is dropped: add_sentence is not
\* called, nothing is published, the receiver state stays as it was, and the loop
\* goes on reading.
C15_NonUtf8LineDropped ==
    (Read /\ ~out.line.utf8)
        => /\ ~out.called
           /\ ~out.parsed
           /\ out.events = << >>
           /\ ReceiverState = out.pre
           /\ pc = "reading"
           /\ port = "open"

C15_Witness ==
    /\ Read /\ ~out.line.utf8 /\ out.line.type = "GGA" /\ ~use_RMC
    /\ using_receiver_epe /\ ~valid_fix

\* C16: in a fix from GGA (use_RMC false) and in a fix from RMC (use_RMC true)
\* alike, the latitude published is the decoded latitude negated exactly when the
\* latitude direction is S, and the longitude published is the decoded longitude
\* negated exactly when the longitude direction is W; with any other direction
\* the decoded value is published as it is.
C16_HemisphereSign ==
    ((Handled("GGA") /\ ~use_RMC) \/ (Handled("RMC") /\ use_RMC))
        => /\ out.events[1].kind = "fix"
           /\ out.events[1].latitude =
                 (IF out.line.data.latitude_direction = "S"
                  THEN F(0 - out.line.data.latitude.v) ELSE out.line.data.latitude)
           /\ out.events[1].longitude =
                 (IF out.line.data.longitude_direction = "W"
                  THEN F(0 - out.line.data.longitude.v) ELSE out.line.data.longitude)

C16_Witness ==
    /\ Handled("RMC") /\ use_RMC
    /\ out.line.data.latitude_direction = "S" /\ out.line.data.longitude_direction = "E"
    /\ out.events[1].latitude = F(-48) /\ out.events[1].longitude = F(11)

\* C17: after a GGA sentence is processed (use_RMC false), each std-dev is either
\* the default of that sentence's own quality code or the value the most recent
\* GST sentence supplied: it is the default when no GST has come or the last GST
\* carried NaN for it, and the GST value otherwise; and the covariance is
\* computed from these values.
C17_KeptValueIsFromLastGST ==
    (Handled("GGA") /\ ~use_RMC)
        => LET d == gps_qualities(FixType(out.line.data.fix_type))[1]
               lon == IF lastGST = << >> \/ isnan(lastGST[1]) THEN d ELSE lastGST[1]
               lat == IF lastGST = << >> \/ isnan(lastGST[2]) THEN d ELSE lastGST[2]
               alt == IF lastGST = << >> \/ isnan(lastGST[3])
                      THEN FMul(d, F(2)) ELSE lastGST[3]
           IN  /\ <<lon_std_dev, lat_std_dev, alt_std_dev>> = <<lon, lat, alt>>
               /\ out.events[1].position_covariance[1]
                     = FSquare(FMul(out.line.data.hdop, lon))
               /\ out.events[1].position_covariance[5]
                     = FSquare(FMul(out.line.data.hdop, lat))
               /\ out.events[1].position_covariance[9]
                     = FSquare(FMul(FMul(F(2), out.line.data.hdop), alt))

FixPublishing == (Handled("GGA") /\ ~use_RMC) \/ (Handled("RMC") /\ use_RMC)

\* C18: a time reference is published exactly when the sentence is one that
\* publishes a fix (GGA with use_RMC false, RMC with use_RMC true) and its UTC
\* time is not NaN, and then right after the fix of that sentence; the fix is
\* published whether or not the time is NaN.
C18_TimeRefIffTimeKnown ==
    Read
        => /\ Count(out.events, "time_ref")
                 = (IF FixPublishing /\ ~isnan(out.line.data.utc_time) THEN 1 ELSE 0)
           /\ FixPublishing
                 => (Count(out.events, "fix") = 1 /\ out.events[1].kind = "fix")
           /\ Count(out.events, "time_ref") = 1
                 => /\ out.events[2].kind = "time_ref"
                    /\ out.events[2].time_ref = out.line.data.utc_time

C18_Witness ==
    /\ Handled("GGA") /\ ~use_RMC /\ isnan(out.line.data.utc_time)
    /\ Len(out.events) = 1 /\ out.events[1].kind = "fix"

\* C19: the covariance of a GGA fix has zero off-diagonal entries and the diagonal
\* (hdop * lon_std_dev)^2, (hdop * lat_std_dev)^2, (2 * hdop * alt_std_dev)^2 of
\* the std-devs the receiver state holds after the error estimate is resolved;
\* when no GST has been received and the default of the quality code is d, that
\* is (hdop * d)^2, (hdop * d)^2, (4 * hdop * d)^2.  The covariance type is the
\* one of the quality entry.
C19_CovarianceOfGGAFix ==
    (Handled("GGA") /\ ~use_RMC)
        => LET cov == out.events[1].position_covariance
               hdop == out.line.data.hdop
               qual == gps_qualities(FixType(out.line.data.fix_type))
           IN  /\ \A i \in (1..9) \ {1, 5, 9} : cov[i] = [nan |-> FALSE, root |-> 0]
               /\ cov[1] = [nan |-> FALSE, root |-> hdop.v * lon_std_dev.v]
               /\ cov[5] = [nan |-> FALSE, root |-> hdop.v * lat_std_dev.v]
               /\ cov[9] = [nan |-> FALSE, root |-> 2 * hdop.v * alt_std_dev.v]
               /\ lastGST = << >>
                     => /\ cov[1] = [nan |-> FALSE, root |-> hdop.v * qual[1].v]
                        /\ cov[5] = [nan |-> FALSE, root |-> hdop.v * qual[1].v]
                        /\ cov[9] = [nan |-> FALSE, root |-> 4 * hdop.v * qual[1].v]
               /\ out.events[1].position_covariance_type = qual[3]

C19_Witness ==
    /\ Handled("GGA") /\ ~use_RMC /\ lastGST = << >>
    /\ out.line.data.fix_type = 9 /\ out.line.data.hdop = F(2)
    /\ out.events[1].position_covariance[9] = [nan |-> FALSE, root |-> 2400]
    /\ out.events[1].position_covariance_type = COVARIANCE_TYPE_APPROXIMATED

\* C20: using_receiver_epe is false at the start, true from the first GST
\* sentence on, and never false again; while it is false, a GGA sentence
\* (use_RMC false) stores (d, d, 2d) as the std-devs, d being the default of
\* that sentence's quality code.
C20_ReceiverEpeMonotonic ==
    /\ out.op = "init" => ~using_receiver_epe
    /\ out.pre.using_receiver_epe => using_receiver_epe
    /\ using_receiver_epe <=> lastGST # << >>
    /\ (Handled("GGA") /\ ~use_RMC /\ ~out.pre.using_receiver_epe)
          => LET d == gps_qualities(FixType(out.line.data.fix_type))[1]
             IN  /\ ~using_receiver_epe
                 /\ <<lon_std_dev, lat_std_dev, alt_std_dev>> = <<d, d, F(2 * d.v)>>

C20_Witness ==
    /\ Handled("GGA") /\ ~use_RMC /\ ~using_receiver_epe
    /\ out.line.data.fix_type = 4
    /\ out.pre.lon_std_dev = F(default_epe_quality1)
    /\ <<lon_std_dev, lat_std_dev, alt_std_dev>> = <<F(2), F(2), F(4)>>

\* C21: processing one sentence publishes at most one message of each kind, and
\* only kinds that belong to the type of the sentence: a fix and a time reference
\* for GGA, a velocity for VTG, a fix, a time reference and a velocity for RMC,
\* a heading for HDT, nothing for GST and nothing for a line that is not handled.
\* One branch runs per sentence: whatever is published is what the branch of the
\* sentence's type publishes, and only a GGA or a GST sentence changes the state.
C21_OneBranchOneEventPerKind ==
    Read
        => /\ \A k \in EventKinds : Count(out.events, k) <= 1
           /\ \A i \in DOMAIN out.events : out.events[i].kind \in KindsOf(out.line.type)
           /\ \A i \in DOMAIN out.events : out.events[i].kind \in EventKinds
           /\ out.events # << >> => Handled(out.line.type)
           /\ ReceiverState # out.pre => (Handled("GGA") \/ Handled("GST"))
           /\ Handled("GST") => out.events = << >>

C21_Witness ==
    /\ Handled("RMC") /\ use_RMC
    /\ Len(out.events) = 3
    /\ \A k \in KindsOf("RMC") : Count(out.events, k) = 1

====
